---- MODULE Spec2Model ----
(***************************************************************************)
(* SaiApi<ApiT>: the generic create / remove / getAttribute /              *)
(* setAttribute / getStats engine of fboss/agent/hw/sai/api/SaiApi.h,      *)
(* called from several control threads against one vendor adapter and one  *)
(* process-wide SaiApiLock; the Trident2Asic capability profile            *)
(* (hw/switch_asics/Trident2Asic.h); the SaiManagerTable                   *)
(* (hw/sai/switch/SaiManagerTable.cpp); and the ThriftHandler calls that   *)
(* test/ThriftTest.cpp exercises.                                          *)
(***************************************************************************)
EXTENDS Integers, Sequences, FiniteSets, TLC

\* ---------------------------------------------------------------- bounds
\* Spec: NumThreads threads call concurrently, with hardware lists of up to
\* ConcLen elements, buffers of capacity up to ConcCap, tuples of up to
\* ConcTuple attributes and up to ConcCounters counter ids.  SpecSingle: one
\* thread, with lists and buffers up to MaxLen, tuples up to MaxTuple and up
\* to MaxCounters counter ids.
NumThreads == 2
ConcLen == 1
ConcCap == 0
ConcTuple == 2
ConcCounters == 1
MaxLen == 2
MaxTuple == 2
MaxCounters == 2
\* SpecSingle: a caller passes the same optional attribute object to
\* getAttribute up to MaxRepeat more times.
MaxRepeat == 2
\* SpecManagers: at most MaxManagerTables SaiManagerTables are constructed,
\* one after the other.
MaxManagerTables == 2
\* SpecThrift: addresses are AddrBits bits wide, a client has at most
\* MaxRoutes routes added one by one, and syncFib takes up to MaxSync routes.
AddrBits == 2
MaxRoutes == 2
MaxSync == 2

Threads == 1..NumThreads

\* ------------------------------------------------------------- statuses
SAI_STATUS_SUCCESS == "SAI_STATUS_SUCCESS"
SAI_STATUS_BUFFER_OVERFLOW == "SAI_STATUS_BUFFER_OVERFLOW"
SAI_STATUS_FAILURE == "SAI_STATUS_FAILURE"
NoStatus == "none"
\* what a vendor primitive that fails may report
FailureStatuses == {SAI_STATUS_FAILURE, SAI_STATUS_BUFFER_OVERFLOW}

\* ------------------------------------------------------- keys, categories
ObjectIds == {"oid1"}
EntryKeys == {"entry1"}
Keys == ObjectIds \cup EntryKeys
NullKey == "null"
ObjectIdCategories == {"port"}
EntryCategories == {"route"}

\* --------------------------------------------------- attributes (codec)
ScalarAttrIds == {"speed"}
ListAttrIds == {"lanes"}
AttrIds == ScalarAttrIds \cup ListAttrIds
IsList(a) == a \in ListAttrIds

Zeros(n) == [i \in 1..n |-> 0]

\* the hardware-side content of a list of n elements
HwList(n) == [i \in 1..n |-> 10 + i]
HwScalars == {<<0>>, <<1>>}

\* A client-side attribute object: id, allocated capacity, the count the
\* vendor last wrote, and the buffer the vendor reads and writes.  A scalar
\* is a one-slot buffer.
ScalarAttr(a, v) == [id |-> a, cap |-> 1, count |-> 1, buf |-> v]
ListAttr(a, c) == [id |-> a, cap |-> c, count |-> c, buf |-> Zeros(c)]
\* AttrT{}
DefaultAttr(a) == IF IsList(a) THEN ListAttr(a, 0) ELSE ScalarAttr(a, <<0>>)
NoAttr == [id |-> "none", cap |-> 0, count |-> 0, buf |-> <<>>]

\* attr.realloc(): grow the buffer to the count the vendor reported and
\* reinitialize it
Realloc(x) ==
  IF IsList(x.id) THEN [x EXCEPT !.cap = x.count, !.buf = Zeros(x.count)] ELSE x

\* attr.value(): an owned copy of the semantic content
Value(x) ==
  IF IsList(x.id)
    THEN SubSeq(x.buf, 1, IF x.count <= x.cap THEN x.count ELSE x.cap)
    ELSE x.buf

\* std::optional<AttrT>: v only has a meaning when has is TRUE; its id stands
\* for the static type AttrT
Some(x) == [has |-> TRUE, v |-> x]
None(a) == [has |-> FALSE, v |-> DefaultAttr(a)]
NoOpt == [has |-> FALSE, v |-> NoAttr]
\* attrOptional.value_or(d)
ValueOr(o, d) == IF o.has THEN o.v ELSE d

\* ------------------------------------------------------------ inputs
GetAttrInputs(maxCap) ==
  {ScalarAttr(a, <<0>>) : a \in ScalarAttrIds}
    \cup {ListAttr(a, c) : a \in ListAttrIds, c \in 0..maxCap}
SetAttrInputs(maxLen) ==
  {ScalarAttr(a, v) : a \in ScalarAttrIds, v \in HwScalars}
    \cup {[id |-> a, cap |-> n, count |-> n, buf |-> HwList(n)] :
            a \in ListAttrIds, n \in 0..maxLen}
RECURSIVE SeqsUpTo(_, _)
SeqsUpTo(S, n) ==
  IF n = 0 THEN {<<>>}
  ELSE LET R == SeqsUpTo(S, n - 1)
       IN R \cup {Append(s, x) : s \in {r \in R : Len(r) = n - 1}, x \in S}
TupleInputs(maxCap, maxTuple) == SeqsUpTo(GetAttrInputs(maxCap), maxTuple) \ {<<>>}
OptionalInputs(maxCap) ==
  {Some(x) : x \in GetAttrInputs(maxCap)} \cup {None(a) : a \in AttrIds}
CounterIdSet == {1, 2}
CounterIdInputs(maxCounters) == SeqsUpTo(CounterIdSet, maxCounters)
\* SaiObjectTraits::CounterIds of the descriptors with stats
TraitsCounterIds == {<<1>>, <<1, 2>>}

VARIABLES
  th,         \* per thread: the engine call it is in, and where
  lock,       \* SaiApiLock::getInstance()->lock: the set of its holders
  inFlight,   \* threads inside a vendor primitive call
  hwObjects,  \* keys of the objects the hardware holds
  hwAttr,     \* hardware-side content of each attribute
  asic,       \* the HwAsic capability profile and the queries made of it
  managerTable, \* the SaiManagerTable and the managers it owns
  sw          \* the switch state behind the Thrift handler, and its calls

vars == <<th, lock, inFlight, hwObjects, hwAttr, asic, managerTable, sw>>

\* the state outside the SaiApi engine
outsideVars == <<asic, managerTable, sw>>
\* the state of the SaiApi engine
apiVars == <<th, lock, inFlight, hwObjects, hwAttr>>

\* nothing constructed outside the engine yet
NoAsic == [made |-> FALSE]
NoManagerTable == [made |-> FALSE, tables |-> 0]
NoSwitch == [made |-> FALSE]

Idle ==
  [pc |-> "idle", kind |-> "none", cat |-> "none", key |-> NullKey,
   attrs |-> <<>>, opt |-> NoOpt, local |-> NoAttr, idx |-> 0,
   ids |-> <<>>, counters |-> <<>>,
   status |-> NoStatus, first |-> NoStatus, calls |-> 0, grows |-> 0,
   seen |-> <<>>, expect |-> <<>>,
   outcome |-> "none", result |-> <<>>, logged |-> FALSE,
   after |-> "none", gone |-> FALSE, round |-> 0]

Init ==
  /\ th = [t \in Threads |-> Idle]
  /\ lock = {}
  /\ inFlight = {}
  /\ hwObjects = {}
  /\ hwAttr = [a \in AttrIds |-> IF IsList(a) THEN HwList(0) ELSE <<0>>]
  /\ asic = NoAsic
  /\ managerTable = NoManagerTable
  /\ sw = NoSwitch

\* ------------------------------------------------ the vendor adapter
\* impl()._getAttribute(key, attr.saiAttr()): a list that does not fit the
\* buffer reports its count and BUFFER_OVERFLOW; otherwise the vendor fills
\* the buffer and the count
AdapterGetAttribute(x, hw, ok) ==
  IF ~ok THEN [status |-> SAI_STATUS_FAILURE, attr |-> x]
  ELSE IF ~IsList(x.id) THEN [status |-> SAI_STATUS_SUCCESS, attr |-> [x EXCEPT !.buf = hw]]
  ELSE IF x.cap < Len(hw)
    THEN [status |-> SAI_STATUS_BUFFER_OVERFLOW, attr |-> [x EXCEPT !.count = Len(hw)]]
    ELSE [status |-> SAI_STATUS_SUCCESS,
          attr |-> [x EXCEPT !.count = Len(hw),
                             !.buf = hw \o SubSeq(x.buf, Len(hw) + 1, x.cap)]]

\* impl()._getStats(key, n, counterIds, mode, counters)
HwCounter(id) == 100 + id
AdapterGetStats(ids, n, counters, ok) ==
  IF ok THEN [status |-> SAI_STATUS_SUCCESS, counters |-> [i \in 1..n |-> HwCounter(ids[i])]]
  ELSE [status |-> SAI_STATUS_FAILURE, counters |-> counters]

\* ----------------------------------------------------- engine helpers
\* saiApiCheckError(status, ...) throws unless the status is success
SaiApiCheckError(status) == status # SAI_STATUS_SUCCESS

\* setAttribute without its lock_guard
EntryPcSetUnlocked(kind) == IF kind = "setAttr" THEN "call" ELSE "lock"

\* the base case of getAttribute without its lock_guard
EntryPcGetUnlocked(kind) == IF kind \in {"getAttr", "getTuple", "getOpt"} THEN "call" ELSE "lock"

\* getStats without its lock_guard
EntryPcStatsUnlocked(kind) ==
  IF kind \in {"getStats", "getStatsDefault"} THEN "call" ELSE "lock"

\* where a call goes first: every operation opens with
\* std::lock_guard<std::mutex> g{SaiApiLock::getInstance()->lock}
EntryPc(kind) == "lock"

\* std::mutex::lock() returns when nobody holds the mutex
CanLock(l) == l = {}

GetKinds == {"getAttr", "getTuple", "getOpt"}

\* a lambda that hands the first element to every base-case call
CurAttrFirst(r) == IF r.kind = "getOpt" THEN r.local ELSE r.attrs[1]

\* the attribute the base case of getAttribute is reading: the caller's own
\* object (AttrT&&), or for the optional overload its local copy
CurAttr(r) == IF r.kind = "getOpt" THEN r.local ELSE r.attrs[r.idx]

\* an optional overload that stores what was read back into the caller's
\* optional
WithCurAttrWriteBack(r, x) ==
  IF r.kind = "getOpt" THEN [r EXCEPT !.local = x, !.opt = Some(x)]
  ELSE [r EXCEPT !.attrs[r.idx] = x]

\* the vendor and realloc() write into that same attribute
WithCurAttr(r, x) ==
  IF r.kind = "getOpt" THEN [r EXCEPT !.local = x] ELSE [r EXCEPT !.attrs[r.idx] = x]

\* the attribute kind the caller asked for at the position being read
RequestedId(r) == IF r.kind = "getOpt" THEN r.opt.v.id ELSE r.attrs[r.idx].id

\* a retry that forgets attr.realloc()
RetryAttrNoRealloc(x) == x

\* attr.realloc() of the retry
RetryAttr(x) == Realloc(x)

\* an absent optional handed back absent
WrapOptionalKeepAbsent(o, v) == [has |-> o.has, v |-> v]

\* std::optional<typename AttrT::ValueType>{getAttribute(key, attr)}
WrapOptional(o, v) == Some(v)

\* a loop where the code has an if: retry as long as the buffer overflows
NeedsRetryLoop(r) == r.status = SAI_STATUS_BUFFER_OVERFLOW

\* if (status == SAI_STATUS_BUFFER_OVERFLOW) after the first attempt
NeedsRetry(r) == r.calls = 1 /\ r.status = SAI_STATUS_BUFFER_OVERFLOW

\* ------------------------------------------------------- operations
\* create, sai_object_id_t case
CreateObjectId(t, cat) ==
  /\ th[t].pc = "idle"
  /\ th' = [th EXCEPT ![t] =
       [Idle EXCEPT !.pc = EntryPc("createId"), !.kind = "createId", !.cat = cat]]
  /\ UNCHANGED <<lock, inFlight, hwObjects, hwAttr>>
  /\ UNCHANGED outsideVars

\* create, entry struct case
CreateEntry(t, cat, entry) ==
  /\ th[t].pc = "idle"
  /\ th' = [th EXCEPT ![t] =
       [Idle EXCEPT !.pc = EntryPc("createEntry"), !.kind = "createEntry",
                        !.cat = cat, !.key = entry]]
  /\ UNCHANGED <<lock, inFlight, hwObjects, hwAttr>>
  /\ UNCHANGED outsideVars

Remove(t, key) ==
  /\ th[t].pc = "idle"
  /\ th' = [th EXCEPT ![t] =
       [Idle EXCEPT !.pc = EntryPc("remove"), !.kind = "remove", !.key = key]]
  /\ UNCHANGED <<lock, inFlight, hwObjects, hwAttr>>
  /\ UNCHANGED outsideVars

\* the key a successful create leaves its caller with: the returned
\* sai_object_id_t, or the entry the caller supplied
ResultingKey(r) == IF r.kind = "createId" THEN r.result[1] ELSE r.key

\* the caller of a successful create removes what it created: remove(key) on
\* the resulting key
RemoveCreated(t) ==
  /\ th[t].pc = "done" /\ th[t].kind \in {"createId", "createEntry"}
  /\ th[t].outcome = "ok"
  /\ th' = [th EXCEPT ![t] =
       [Idle EXCEPT !.pc = EntryPc("remove"), !.kind = "remove",
                        !.key = ResultingKey(th[t]),
                        !.after = th[t].kind, !.gone = th[t].gone]]
  /\ UNCHANGED <<lock, inFlight, hwObjects, hwAttr>>
  /\ UNCHANGED outsideVars

\* getAttribute, base case
GetAttribute(t, key, attr) ==
  /\ th[t].pc = "idle"
  /\ th' = [th EXCEPT ![t] =
       [Idle EXCEPT !.pc = EntryPc("getAttr"), !.kind = "getAttr", !.key = key,
                        !.attrs = <<attr>>, !.idx = 1]]
  /\ UNCHANGED <<lock, inFlight, hwObjects, hwAttr>>
  /\ UNCHANGED outsideVars

\* getAttribute, std::tuple of attributes: tupleMap calls the base case on
\* the first element
GetAttributeTuple(t, key, attrTuple) ==
  /\ th[t].pc = "idle"
  /\ th' = [th EXCEPT ![t] =
       [Idle EXCEPT !.pc = EntryPc("getTuple"), !.kind = "getTuple", !.key = key,
                        !.attrs = attrTuple, !.idx = 1]]
  /\ UNCHANGED <<lock, inFlight, hwObjects, hwAttr>>
  /\ UNCHANGED outsideVars

\* getAttribute, std::optional of attribute: AttrT attr =
\* attrOptional.value_or(AttrT{}), then the base case on attr
GetAttributeOptional(t, key, attrOptional) ==
  /\ th[t].pc = "idle"
  /\ th' = [th EXCEPT ![t] =
       [Idle EXCEPT !.pc = EntryPc("getOpt"), !.kind = "getOpt", !.key = key,
                        !.opt = attrOptional,
                        !.local = ValueOr(attrOptional, DefaultAttr(attrOptional.v.id))]]
  /\ UNCHANGED <<lock, inFlight, hwObjects, hwAttr>>
  /\ UNCHANGED outsideVars

\* the caller of a getAttribute over an optional calls it again, with the
\* same optional object
GetAttributeOptionalAgain(t) ==
  /\ th[t].pc = "done" /\ th[t].kind = "getOpt"
  /\ th[t].round < MaxRepeat
  /\ th' = [th EXCEPT ![t] =
       [Idle EXCEPT !.pc = EntryPc("getOpt"), !.kind = "getOpt", !.key = th[t].key,
                        !.opt = th[t].opt,
                        !.local = ValueOr(th[t].opt, DefaultAttr(th[t].opt.v.id)),
                        !.round = th[t].round + 1]]
  /\ UNCHANGED <<lock, inFlight, hwObjects, hwAttr>>
  /\ UNCHANGED outsideVars

SetAttribute(t, key, attr) ==
  /\ th[t].pc = "idle"
  /\ th' = [th EXCEPT ![t] =
       [Idle EXCEPT !.pc = EntryPc("setAttr"), !.kind = "setAttr", !.key = key,
                        !.attrs = <<attr>>, !.idx = 1]]
  /\ UNCHANGED <<lock, inFlight, hwObjects, hwAttr>>
  /\ UNCHANGED outsideVars

\* getStats with an explicit counter-id list
GetStats(t, key, counterIds) ==
  /\ th[t].pc = "idle"
  /\ th' = [th EXCEPT ![t] =
       [Idle EXCEPT !.pc = EntryPc("getStats"), !.kind = "getStats", !.key = key,
                        !.ids = counterIds]]
  /\ UNCHANGED <<lock, inFlight, hwObjects, hwAttr>>
  /\ UNCHANGED outsideVars

\* getStats with the descriptor's SaiObjectTraits::CounterIds
GetStatsDefault(t, key, traitsCounterIds) ==
  /\ th[t].pc = "idle"
  /\ th' = [th EXCEPT ![t] =
       [Idle EXCEPT !.pc = EntryPc("getStatsDefault"), !.kind = "getStatsDefault",
                        !.key = key, !.ids = traitsCounterIds]]
  /\ UNCHANGED <<lock, inFlight, hwObjects, hwAttr>>
  /\ UNCHANGED outsideVars

\* std::lock_guard<std::mutex> g{...}: blocks until the mutex is free
AcquireLock(t) ==
  /\ th[t].pc = "lock"
  /\ CanLock(lock)
  /\ lock' = lock \cup {t}
  /\ th' = [th EXCEPT ![t].pc = "call"]
  /\ UNCHANGED <<inFlight, hwObjects, hwAttr>>
  /\ UNCHANGED outsideVars

\* reserve() where the code has resize(): the vector stays empty
ResizedCountersReserve(r) ==
  IF r.kind \in {"getStats", "getStatsDefault"} THEN <<>> ELSE r.counters

\* getStatsImpl: counters.resize(numCounters)
ResizedCounters(r) ==
  IF r.kind \in {"getStats", "getStatsDefault"} THEN Zeros(Len(r.ids)) ELSE r.counters

\* the thread enters the vendor primitive
VendorCall(t) ==
  /\ th[t].pc = "call"
  /\ inFlight' = inFlight \cup {t}
  /\ th' = [th EXCEPT ![t].pc = "inflight", ![t].counters = ResizedCounters(th[t])]
  /\ UNCHANGED <<lock, hwObjects, hwAttr>>
  /\ UNCHANGED outsideVars

\* what every vendor primitive's return does to the caller: the status, and
\* the count of the calls of this invocation
Returned(r, status) ==
  [r EXCEPT !.pc = "ret", !.status = status, !.calls = r.calls + 1,
            !.first = IF r.calls = 0 THEN status ELSE r.first]

\* impl()._create(&key, switch_id, ...) returns
VendorCreateObjectId(t) ==
  /\ th[t].pc = "inflight" /\ th[t].kind = "createId"
  /\ inFlight' = inFlight \ {t}
  /\ \/ \E k \in ObjectIds \ hwObjects :
          /\ hwObjects' = hwObjects \cup {k}
          /\ th' = [th EXCEPT ![t] = Returned([th[t] EXCEPT !.key = k], SAI_STATUS_SUCCESS)]
     \/ /\ \E s \in FailureStatuses : th' = [th EXCEPT ![t] = Returned(th[t], s)]
        /\ UNCHANGED hwObjects
  /\ UNCHANGED <<lock, hwAttr>>
  /\ UNCHANGED outsideVars

\* impl()._create(entry, ...) returns
VendorCreateEntry(t) ==
  /\ th[t].pc = "inflight" /\ th[t].kind = "createEntry"
  /\ inFlight' = inFlight \ {t}
  /\ \/ /\ th[t].key \notin hwObjects
        /\ hwObjects' = hwObjects \cup {th[t].key}
        /\ th' = [th EXCEPT ![t] = Returned(th[t], SAI_STATUS_SUCCESS)]
     \/ /\ \E s \in FailureStatuses : th' = [th EXCEPT ![t] = Returned(th[t], s)]
        /\ UNCHANGED hwObjects
  /\ UNCHANGED <<lock, hwAttr>>
  /\ UNCHANGED outsideVars

\* the thread has created the object k and has not yet handed it to the
\* vendor's remove
HoldsCreated(r, k) ==
  /\ r.key = k
  /\ \/ r.kind \in {"createId", "createEntry"} /\ r.pc \in {"ret", "done"}
        /\ r.status = SAI_STATUS_SUCCESS
     \/ r.kind = "remove" /\ r.after # "none" /\ r.pc \in {"lock", "call", "inflight"}

\* impl()._remove(key) returns: the vendor removes any object it holds; a
\* thread that created this object and has not removed it yet has lost it
\* to this remove (gone)
VendorRemove(t) ==
  /\ th[t].pc = "inflight" /\ th[t].kind = "remove"
  /\ inFlight' = inFlight \ {t}
  /\ hwObjects' = hwObjects \ {th[t].key}
  /\ th' = [u \in Threads |->
              IF u = t
                THEN Returned(th[t], IF th[t].key \in hwObjects THEN SAI_STATUS_SUCCESS
                                     ELSE SAI_STATUS_FAILURE)
              ELSE IF HoldsCreated(th[u], th[t].key) THEN [th[u] EXCEPT !.gone = TRUE]
              ELSE th[u]]
  /\ UNCHANGED <<lock, hwAttr>>
  /\ UNCHANGED outsideVars

\* impl()._getAttribute(key, attr.saiAttr()) returns
VendorGetAttribute(t) ==
  /\ th[t].pc = "inflight" /\ th[t].kind \in GetKinds
  /\ inFlight' = inFlight \ {t}
  /\ \E ok \in BOOLEAN :
       LET x == CurAttr(th[t])
           out == AdapterGetAttribute(x, hwAttr[x.id], ok /\ th[t].key \in hwObjects)
       IN th' = [th EXCEPT ![t] =
                   Returned([WithCurAttr(th[t], out.attr) EXCEPT
                               !.seen = IF out.status = SAI_STATUS_SUCCESS
                                          THEN hwAttr[RequestedId(th[t])] ELSE <<>>],
                            out.status)]
  /\ UNCHANGED <<lock, hwObjects, hwAttr>>
  /\ UNCHANGED outsideVars

\* impl()._setAttribute(key, saiAttr(attr)) returns
VendorSetAttribute(t) ==
  /\ th[t].pc = "inflight" /\ th[t].kind = "setAttr"
  /\ inFlight' = inFlight \ {t}
  /\ IF th[t].key \in hwObjects
       THEN /\ hwAttr' = [hwAttr EXCEPT ![th[t].attrs[1].id] = Value(th[t].attrs[1])]
            /\ th' = [th EXCEPT ![t] = Returned(th[t], SAI_STATUS_SUCCESS)]
       ELSE /\ th' = [th EXCEPT ![t] = Returned(th[t], SAI_STATUS_FAILURE)]
            /\ UNCHANGED hwAttr
  /\ UNCHANGED <<lock, hwObjects>>
  /\ UNCHANGED outsideVars

\* impl()._getStats(key, counters.size(), counterIds, mode, counters.data())
\* returns
VendorGetStats(t) ==
  /\ th[t].pc = "inflight" /\ th[t].kind \in {"getStats", "getStatsDefault"}
  /\ inFlight' = inFlight \ {t}
  /\ LET out == AdapterGetStats(th[t].ids, Len(th[t].counters), th[t].counters,
                                th[t].key \in hwObjects)
     IN th' = [th EXCEPT ![t] = Returned([th[t] EXCEPT !.counters = out.counters],
                                         out.status)]
  /\ UNCHANGED <<lock, hwObjects, hwAttr>>
  /\ UNCHANGED outsideVars

\* ------------------------------------------- after the vendor returned
\* a retry that lets go of the lock
RetryLockReleased(l, t) == l \ {t}

\* the retry runs inside the lock_guard's scope: the lock stays as it is
RetryLock(l, t) == l

\* getAttribute, base case: attr.realloc() and the second
\* impl()._getAttribute, still under the lock_guard
RetryGetAttribute(t) ==
  /\ th[t].pc = "ret" /\ th[t].kind \in GetKinds
  /\ NeedsRetry(th[t])
  /\ th' = [th EXCEPT ![t] =
              [WithCurAttr(th[t], RetryAttr(CurAttr(th[t])))
                 EXCEPT !.pc = "call", !.grows = th[t].grows + 1]]
  /\ lock' = RetryLock(lock, t)
  /\ UNCHANGED <<inFlight, hwObjects, hwAttr>>
  /\ UNCHANGED outsideVars

\* the vendor calls of this invocation are over
Settled(r) == r.pc = "ret" /\ ~(r.kind \in GetKinds /\ NeedsRetry(r))

\* a check that lets BUFFER_OVERFLOW pass
ThrowsUnlessOverflow(r) ==
  r.status \notin {SAI_STATUS_SUCCESS, SAI_STATUS_BUFFER_OVERFLOW}

\* saiApiCheckError(status, ApiT::ApiType, "Failed to ...") after the last
\* vendor call of the invocation
Throws(r) == SaiApiCheckError(r.status)

\* an error that hands back the elements read so far
ThrownPartial(r) == [r EXCEPT !.pc = "done", !.outcome = "error"]

\* the exception leaves the engine (through the lambda and tupleMap too):
\* the caller gets no return value
Thrown(r) == [r EXCEPT !.pc = "done", !.outcome = "error", !.result = <<>>, !.expect = <<>>]

\* an unlock() that the exception jumps over: the thrower keeps the lock
ThrowLockKept(l, t) == l

\* the exception unwinds through the scope of the lock_guard, whose
\* destructor unlocks
ThrowLock(l, t) == l \ {t}

\* saiApiCheckError throws, and the lock_guard releases the lock
Throw(t) ==
  /\ Settled(th[t])
  /\ Throws(th[t])
  /\ lock' = ThrowLock(lock, t)
  /\ th' = [th EXCEPT ![t] = Thrown(th[t])]
  /\ UNCHANGED <<inFlight, hwObjects, hwAttr>>
  /\ UNCHANGED outsideVars

\* a normal return of a call that is no getAttribute: the lock_guard
\* releases the lock and the caller gets the result
Finished(r, result, logged) ==
  [r EXCEPT !.pc = "done", !.outcome = "ok", !.result = result, !.logged = logged]

\* a create that hands back a key it never filled in
CreatedKeyNull(r) == NullKey

\* typename SaiObjectTraits::AdapterKey key; _create(&key, ...); return key
CreatedKey(r) == r.key

\* create, sai_object_id_t case: return key
ReturnCreateObjectId(t) ==
  /\ Settled(th[t]) /\ th[t].kind = "createId"
  /\ ~Throws(th[t])
  /\ lock' = lock \ {t}
  /\ th' = [th EXCEPT ![t] = Finished(th[t], <<CreatedKey(th[t])>>, FALSE)]
  /\ UNCHANGED <<inFlight, hwObjects, hwAttr>>
  /\ UNCHANGED outsideVars

\* create, entry struct case: XLOG "created sai object"
ReturnCreateEntry(t) ==
  /\ Settled(th[t]) /\ th[t].kind = "createEntry"
  /\ ~Throws(th[t])
  /\ lock' = lock \ {t}
  /\ th' = [th EXCEPT ![t] = Finished(th[t], <<>>, TRUE)]
  /\ UNCHANGED <<inFlight, hwObjects, hwAttr>>
  /\ UNCHANGED outsideVars

\* remove: XLOG "removed sai object"
ReturnRemove(t) ==
  /\ Settled(th[t]) /\ th[t].kind = "remove"
  /\ ~Throws(th[t])
  /\ lock' = lock \ {t}
  /\ th' = [th EXCEPT ![t] = Finished(th[t], <<>>, TRUE)]
  /\ UNCHANGED <<inFlight, hwObjects, hwAttr>>
  /\ UNCHANGED outsideVars

ReturnSetAttribute(t) ==
  /\ Settled(th[t]) /\ th[t].kind = "setAttr"
  /\ ~Throws(th[t])
  /\ lock' = lock \ {t}
  /\ th' = [th EXCEPT ![t] = Finished(th[t], <<>>, FALSE)]
  /\ UNCHANGED <<inFlight, hwObjects, hwAttr>>
  /\ UNCHANGED outsideVars

\* getStatsImpl: return counters
ReturnGetStats(t) ==
  /\ Settled(th[t]) /\ th[t].kind \in {"getStats", "getStatsDefault"}
  /\ ~Throws(th[t])
  /\ lock' = lock \ {t}
  /\ th' = [th EXCEPT ![t] = Finished(th[t], <<th[t].counters>>, FALSE)]
  /\ UNCHANGED <<inFlight, hwObjects, hwAttr>>
  /\ UNCHANGED outsideVars

\* which element the recursion of the tuple overload hands to the base case
\* after element i
NextElement(i) == i + 1

\* getAttribute, base case: return attr.value(); the callers of the base
\* case then wrap it (optional overload) or go on with the next element
\* (tuple overload)
ReturnGetAttribute(t) ==
  /\ Settled(th[t]) /\ th[t].kind \in GetKinds
  /\ ~Throws(th[t])
  /\ lock' = lock \ {t}
  /\ LET r == th[t]
         v == Value(CurAttr(r))
     IN th' = [th EXCEPT ![t] =
          CASE r.kind = "getAttr" ->
                 [r EXCEPT !.pc = "done", !.outcome = "ok", !.result = <<v>>,
                           !.expect = <<r.seen>>]
            [] r.kind = "getOpt" ->
                 [r EXCEPT !.pc = "done", !.outcome = "ok", !.result = <<WrapOptional(r.opt, v)>>,
                           !.expect = <<r.seen>>]
            [] r.kind = "getTuple" /\ r.idx = Len(r.attrs) ->
                 [r EXCEPT !.pc = "done", !.outcome = "ok",
                           !.result = Append(r.result, v),
                           !.expect = Append(r.expect, r.seen)]
            [] OTHER ->
                 [r EXCEPT !.pc = EntryPc("getAttr"), !.idx = NextElement(r.idx),
                           !.result = Append(r.result, v),
                           !.expect = Append(r.expect, r.seen),
                           !.status = NoStatus, !.first = NoStatus,
                           !.calls = 0, !.grows = 0, !.seen = <<>>]]
  /\ UNCHANGED <<inFlight, hwObjects, hwAttr>>
  /\ UNCHANGED outsideVars

\* the caller has its result or its exception, and is free to call again
Complete(t) ==
  /\ th[t].pc = "done"
  /\ th' = [th EXCEPT ![t] = Idle]
  /\ UNCHANGED <<lock, inFlight, hwObjects, hwAttr>>
  /\ UNCHANGED outsideVars

\* the hardware changes a list on its own (a lane, a member comes or goes)
HwListChange(a, n) ==
  /\ hwAttr[a] # HwList(n)
  /\ hwAttr' = [hwAttr EXCEPT ![a] = HwList(n)]
  /\ UNCHANGED <<th, lock, inFlight, hwObjects>>
  /\ UNCHANGED outsideVars

\* every operation, by the threads T, on the keys K, with hardware lists up
\* to maxLen, buffers up to maxCap, tuples up to maxTuple and counter-id
\* lists up to maxCounters
Calls(T, K, maxLen, maxCap, maxTuple, maxCounters) ==
  \/ \E t \in T, c \in ObjectIdCategories : CreateObjectId(t, c)
  \/ \E t \in T, c \in EntryCategories, k \in EntryKeys : CreateEntry(t, c, k)
  \/ \E t \in T, k \in Keys : Remove(t, k)
  \/ \E t \in T : RemoveCreated(t)
  \/ \E t \in T, k \in K, x \in GetAttrInputs(maxCap) : GetAttribute(t, k, x)
  \/ \E t \in T, k \in K, x \in TupleInputs(maxCap, maxTuple) : GetAttributeTuple(t, k, x)
  \/ \E t \in T, k \in K, o \in OptionalInputs(maxCap) : GetAttributeOptional(t, k, o)
  \/ \E t \in T, k \in K, x \in SetAttrInputs(maxLen) : SetAttribute(t, k, x)
  \/ \E t \in T, k \in K, c \in CounterIdInputs(maxCounters) : GetStats(t, k, c)
  \/ \E t \in T, k \in K, c \in TraitsCounterIds : GetStatsDefault(t, k, c)
  \/ \E a \in ListAttrIds, n \in 0..maxLen : HwListChange(a, n)

Steps(T) ==
  \/ \E t \in T : AcquireLock(t)
  \/ \E t \in T : VendorCall(t)
  \/ \E t \in T : VendorCreateObjectId(t)
  \/ \E t \in T : VendorCreateEntry(t)
  \/ \E t \in T : VendorRemove(t)
  \/ \E t \in T : VendorGetAttribute(t)
  \/ \E t \in T : VendorSetAttribute(t)
  \/ \E t \in T : VendorGetStats(t)
  \/ \E t \in T : RetryGetAttribute(t)
  \/ \E t \in T : Throw(t)
  \/ \E t \in T : ReturnCreateObjectId(t)
  \/ \E t \in T : ReturnCreateEntry(t)
  \/ \E t \in T : ReturnRemove(t)
  \/ \E t \in T : ReturnSetAttribute(t)
  \/ \E t \in T : ReturnGetStats(t)
  \/ \E t \in T : ReturnGetAttribute(t)
  \/ \E t \in T : Complete(t)

Next == Calls(Threads, {"oid1"}, ConcLen, ConcCap, ConcTuple, ConcCounters) \/ Steps(Threads)

Spec == Init /\ [][Next]_vars

\* Every vendor primitive returns, every thread keeps running the code of
\* the call it is in, and the mutex is fair: a thread that keeps finding the
\* lock free again and again gets it.  Whether a caller calls at all, and
\* when it picks up its result, is up to the caller.
Fairness ==
  \A t \in Threads :
    /\ SF_vars(AcquireLock(t))
    /\ WF_vars(VendorCall(t))
    /\ WF_vars(VendorCreateObjectId(t) \/ VendorCreateEntry(t) \/ VendorRemove(t)
                 \/ VendorGetAttribute(t) \/ VendorSetAttribute(t) \/ VendorGetStats(t))
    /\ WF_vars(RetryGetAttribute(t))
    /\ WF_vars(Throw(t))
    /\ WF_vars(ReturnCreateObjectId(t) \/ ReturnCreateEntry(t) \/ ReturnRemove(t)
                 \/ ReturnSetAttribute(t) \/ ReturnGetStats(t) \/ ReturnGetAttribute(t))

\* every operation and every overload of getAttribute, each with one input:
\* an empty list buffer (which overflows once the list has an element), an
\* aggregate of a list and a scalar, an absent optional list
FairCalls(T) ==
  \/ \E t \in T, c \in ObjectIdCategories : CreateObjectId(t, c)
  \/ \E t \in T, c \in EntryCategories, k \in EntryKeys : CreateEntry(t, c, k)
  \/ \E t \in T, k \in Keys : Remove(t, k)
  \/ \E t \in T : RemoveCreated(t)
  \/ \E t \in T, k \in ObjectIds, a \in ListAttrIds : GetAttribute(t, k, ListAttr(a, 0))
  \/ \E t \in T, k \in ObjectIds, a \in ListAttrIds, b \in ScalarAttrIds :
        GetAttributeTuple(t, k, <<ListAttr(a, 0), ScalarAttr(b, <<0>>)>>)
  \/ \E t \in T, k \in ObjectIds, a \in ListAttrIds : GetAttributeOptional(t, k, None(a))
  \/ \E t \in T, k \in ObjectIds, a \in ListAttrIds :
        SetAttribute(t, k, [id |-> a, cap |-> 1, count |-> 1, buf |-> HwList(1)])
  \/ \E t \in T, k \in ObjectIds : GetStats(t, k, <<1>>)
  \/ \E t \in T, k \in ObjectIds : GetStatsDefault(t, k, <<1>>)

NextFair == FairCalls(Threads) \/ Steps(Threads)

SpecFair == Init /\ [][NextFair]_vars /\ Fairness

\* one thread calling, with the wider inputs
NextSingle ==
  \/ Calls({1}, {"oid1"}, MaxLen, MaxLen, MaxTuple, MaxCounters)
  \/ GetAttributeOptionalAgain(1)
  \/ Steps({1})

SpecSingle == Init /\ [][NextSingle]_vars

\* ============================================== Trident2Asic (HwAsic)
\* cfg::StreamType: the three enumerators, and a value outside them
StreamTypes == {"UNICAST", "MULTICAST", "ALL", "OutOfRange"}
\* bool cpu of getQueueStreamTypes, as the kind of port asked about
PortKinds == {"cpu", "port"}
\* HwAsic::Feature
Features == {"feature1"}

\* a query and its argument
Query(name, arg) == [name |-> name, arg |-> arg]
QueryKeys ==
  {Query("isSupported", f) : f \in Features}
    \cup {Query(n, "none") : n \in {"getAsicType", "getMaxPortSpeed", "getMaxLabelStackDepth",
                                    "getMMUSizeBytes", "desiredLoopbackMode"}}
    \cup {Query("getQueueStreamTypes", k) : k \in PortKinds}
    \cup {Query("getDefaultNumPortQueues", st) : st \in StreamTypes}

\* what a query gives its caller: a return value, or an FbossError and the
\* values appended to its message
Returns(v) == [raised |-> FALSE, value |-> <<v>>, names |-> <<>>]
Raises(names) == [raised |-> TRUE, value |-> <<>>, names |-> names]

\* Trident2Asic(): the profile is the chip's identity and its feature table
ConstructAsic(features) ==
  /\ ~asic.made
  /\ asic' = [made |-> TRUE,
              profile |-> [type |-> "ASIC_TYPE_TRIDENT2", features |-> features],
              built |-> [type |-> "ASIC_TYPE_TRIDENT2", features |-> features],
              query |-> Query("none", "none"), forPort |-> "none",
              outcome |-> Returns("none"),
              answers |-> [k \in QueryKeys |-> {}]]
  /\ UNCHANGED <<apiVars, managerTable, sw>>

\* a const query returns: the profile is as it was, and the caller has the
\* outcome (answers collects every outcome each query ever gave)
Asked(a, key, forPort, outcome) ==
  [a EXCEPT !.query = key, !.forPort = forPort, !.outcome = outcome,
            !.answers[key] = @ \cup {outcome}]

\* bool isSupported(Feature) const override
IsSupportedResult(a, feature) == Returns(feature \in a.profile.features)
IsSupported(feature) ==
  /\ asic.made
  /\ asic' = Asked(asic, Query("isSupported", feature), "none",
                   IsSupportedResult(asic, feature))
  /\ UNCHANGED <<apiVars, managerTable, sw>>

\* AsicType getAsicType() const override
GetAsicType ==
  /\ asic.made
  /\ asic' = Asked(asic, Query("getAsicType", "none"), "none", Returns("ASIC_TYPE_TRIDENT2"))
  /\ UNCHANGED <<apiVars, managerTable, sw>>

\* cfg::PortSpeed getMaxPortSpeed() const override
GetMaxPortSpeed ==
  /\ asic.made
  /\ asic' = Asked(asic, Query("getMaxPortSpeed", "none"), "none", Returns("FORTYG"))
  /\ UNCHANGED <<apiVars, managerTable, sw>>

\* std::set<cfg::StreamType> getQueueStreamTypes(bool cpu) const override
QueueStreamTypes(a, portKind) == IF portKind = "cpu" THEN {"MULTICAST"} ELSE {"UNICAST"}
GetQueueStreamTypes(portKind) ==
  /\ asic.made
  /\ asic' = Asked(asic, Query("getQueueStreamTypes", portKind), portKind,
                   Returns(QueueStreamTypes(asic, portKind)))
  /\ UNCHANGED <<apiVars, managerTable, sw>>

\* a switch whose ALL case shares the return of the other two
DefaultNumPortQueuesAllReturns(a, streamType) ==
  IF streamType \in {"UNICAST", "MULTICAST", "ALL"} THEN Returns(0)
  ELSE Raises(<<streamType>>)

\* a profile that remembers that it threw: once the ALL case was asked,
\* every stream type is refused
DefaultNumPortQueuesSticky(a, streamType) ==
  IF a.answers[Query("getDefaultNumPortQueues", "ALL")] # {} \/ streamType = "ALL"
    THEN Raises(<<>>)
  ELSE IF streamType \in {"UNICAST", "MULTICAST"} THEN Returns(0)
  ELSE Raises(<<streamType>>)

\* int getDefaultNumPortQueues(cfg::StreamType streamType) const override:
\* the switch over streamType, and the throw after it
DefaultNumPortQueues(a, streamType) ==
  CASE streamType \in {"UNICAST", "MULTICAST"} -> Returns(0)
    [] streamType = "ALL" -> Raises(<<>>)
    [] OTHER -> Raises(<<streamType>>)

\* a manager asks for the default queue count of a stream type, for a port of
\* kind portKind; the query itself only takes the stream type
GetDefaultNumPortQueues(streamType, portKind) ==
  /\ asic.made
  /\ asic' = Asked(asic, Query("getDefaultNumPortQueues", streamType), portKind,
                   DefaultNumPortQueues(asic, streamType))
  /\ UNCHANGED <<apiVars, managerTable, sw>>

\* uint32_t getMaxLabelStackDepth() const override
MaxLabelStackDepth == 2
GetMaxLabelStackDepth ==
  /\ asic.made
  /\ asic' = Asked(asic, Query("getMaxLabelStackDepth", "none"), "none",
                   Returns(MaxLabelStackDepth))
  /\ UNCHANGED <<apiVars, managerTable, sw>>

\* uint64_t getMMUSizeBytes() const override
MMUSizeBytes == 16 * 1024 * 1024
GetMMUSizeBytes ==
  /\ asic.made
  /\ asic' = Asked(asic, Query("getMMUSizeBytes", "none"), "none", Returns(MMUSizeBytes))
  /\ UNCHANGED <<apiVars, managerTable, sw>>

\* cfg::PortLoopbackMode desiredLoopbackMode() const override
DesiredLoopbackMode ==
  /\ asic.made
  /\ asic' = Asked(asic, Query("desiredLoopbackMode", "none"), "none", Returns("PHY"))
  /\ UNCHANGED <<apiVars, managerTable, sw>>

NextAsic ==
  \/ \E fs \in SUBSET Features : ConstructAsic(fs)
  \/ \E f \in Features : IsSupported(f)
  \/ GetAsicType
  \/ GetMaxPortSpeed
  \/ \E k \in PortKinds : GetQueueStreamTypes(k)
  \/ \E st \in StreamTypes, k \in PortKinds : GetDefaultNumPortQueues(st, k)
  \/ GetMaxLabelStackDepth
  \/ GetMMUSizeBytes
  \/ DesiredLoopbackMode

SpecAsic == Init /\ [][NextAsic]_vars

\* ===================================================== SaiManagerTable
\* the SaiApiTable a caller constructs a SaiManagerTable with
ApiTables == {"apiTable1", "apiTable2"}
ManagerCategories == {"bridge", "port"}

\* std::make_unique<Sai...Manager>(apiTable_, this): a manager of one
\* category, holding the table and the back-reference it was given
NewManager(category, apiTable, this) ==
  [category |-> category, apiTable |-> apiTable, managerTable |-> this]

\* SaiManagerTable::SaiManagerTable(SaiApiTable* apiTable): apiTable_, then
\* bridgeManager_, then portManager_; constructed lists the managers in the
\* order they were made
ConstructManagerTable(apiTable) ==
  /\ ~managerTable.made
  /\ managerTable.tables < MaxManagerTables
  /\ LET this == managerTable.tables + 1
         apiTable_ == apiTable
         bridgeManager_ == NewManager("bridge", apiTable_, this)
         made1 == Append(<<>>, bridgeManager_)
         portManager_ == NewManager("port", apiTable_, this)
         made2 == Append(made1, portManager_)
     IN managerTable' =
          [made |-> TRUE, tables |-> this, this |-> this, given |-> apiTable,
           apiTable |-> apiTable_,
           bridgeManager |-> bridgeManager_, portManager |-> portManager_,
           constructed |-> made2,
           accessor |-> "none", returned |-> bridgeManager_, handed |-> {}]
  /\ UNCHANGED <<apiVars, asic, sw>>

\* SaiManagerTable::~SaiManagerTable(): the unique_ptrs release the managers
DestroyManagerTable ==
  /\ managerTable.made
  /\ managerTable' = [made |-> FALSE, tables |-> managerTable.tables]
  /\ UNCHANGED <<apiVars, asic, sw>>

\* an accessor returns: the caller has a reference to a manager (handed
\* collects what each accessor ever returned)
Handed(mt, accessor, m) ==
  [mt EXCEPT !.accessor = accessor, !.returned = m,
             !.handed = @ \cup {[accessor |-> accessor, manager |-> m]}]

\* a bridge accessor that dereferences the other pointer
BridgeManagerIsPort(mt) == mt.portManager

\* return *bridgeManager_
BridgeManagerOf(mt) == mt.bridgeManager
\* return *portManager_
PortManagerOf(mt) == mt.portManager

\* SaiBridgeManager& SaiManagerTable::bridgeManager()
BridgeManager ==
  /\ managerTable.made
  /\ managerTable' = Handed(managerTable, "bridgeManager", BridgeManagerOf(managerTable))
  /\ UNCHANGED <<apiVars, asic, sw>>

\* const SaiBridgeManager& SaiManagerTable::bridgeManager() const
BridgeManagerConst ==
  /\ managerTable.made
  /\ managerTable' = Handed(managerTable, "bridgeManager const", BridgeManagerOf(managerTable))
  /\ UNCHANGED <<apiVars, asic, sw>>

\* SaiPortManager& SaiManagerTable::portManager()
PortManager ==
  /\ managerTable.made
  /\ managerTable' = Handed(managerTable, "portManager", PortManagerOf(managerTable))
  /\ UNCHANGED <<apiVars, asic, sw>>

\* const SaiPortManager& SaiManagerTable::portManager() const
PortManagerConst ==
  /\ managerTable.made
  /\ managerTable' = Handed(managerTable, "portManager const", PortManagerOf(managerTable))
  /\ UNCHANGED <<apiVars, asic, sw>>

NextManagers ==
  \/ \E a \in ApiTables : ConstructManagerTable(a)
  \/ DestroyManagerTable
  \/ BridgeManager
  \/ BridgeManagerConst
  \/ PortManager
  \/ PortManagerConst

SpecManagers == Init /\ [][NextManagers]_vars

\* ======================================= ThriftHandler over a SwSwitch
\* folly::IPAddress, as an AddrBits-bit number in its family
Families == {"v4", "v6"}
RECURSIVE Pow2(_)
Pow2(n) == IF n = 0 THEN 1 ELSE 2 * Pow2(n - 1)
Addresses == 0..(Pow2(AddrBits) - 1)

\* IpPrefix: ip and prefixLength
IpPrefix(fam, ip, len) == [fam |-> fam, ip |-> ip, len |-> len]

\* a prefix kept with its host bits
NetworkUnmasked(p) == p

\* the network of a prefix: the host bits below the prefix length are zero
\* (7.7.7.7/16 is the route 7.7.0.0/16)
Network(p) ==
  [p EXCEPT !.ip = (p.ip \div Pow2(AddrBits - p.len)) * Pow2(AddrBits - p.len)]

\* makeUnicastRoute(ip, len, nxtHop)
MakeUnicastRoute(fam, ip, len, nxtHop) ==
  [dest |-> IpPrefix(fam, ip, len), nextHopAddrs |-> nxtHop]
\* the routes clients send: v4 routes of every length, and a v6 host route
RouteInputs ==
  {MakeUnicastRoute("v4", ip, len, "nexthop") : ip \in Addresses, len \in 1..AddrBits}
    \cup {MakeUnicastRoute("v6", Pow2(AddrBits) - 1, AddrBits, "nexthop")}

\* std::vector<UnicastRoute> of syncFib
SyncInputs == SeqsUpTo(RouteInputs, MaxSync)

\* the clients that add routes (client id 0 of the test)
ClientIds == {"client0"}

\* one entry of a route table: a network, and whose route it is
RouteEntry(p, client, nexthop) == [prefix |-> Network(p), client |-> client, nexthop |-> nexthop]
ClientRoute(client, r) == RouteEntry(r.dest, client, r.nextHopAddrs)

\* the interfaces of a configuration: testStateA() has interfaces 1 and 55,
\* the configuration of the syncFib test has interface 1
Interface(name, id, mac, addrs) ==
  [interfaceName |-> name, interfaceId |-> id, vlanId |-> id, routerId |-> 0,
   mac |-> mac, address |-> addrs]
Interface1(name) ==
  Interface(name, 1, "00:02:00:00:00:01",
            {IpPrefix("v4", 1, AddrBits - 1), IpPrefix("v4", 3, AddrBits),
             IpPrefix("v6", 1, AddrBits - 1)})
Interface55 ==
  Interface("interface55", 55, "00:02:00:00:00:55",
            {IpPrefix("v4", 1, AddrBits), IpPrefix("v4", 2, AddrBits),
             IpPrefix("v6", 3, AddrBits)})
TestStateA == {Interface1("interface1"), Interface55}
SyncFibConfig == {Interface1("Interface 1")}
Configs == {TestStateA, SyncFibConfig}
NoInterface == Interface("none", 0, "none", {})

\* the routes a switch has before any client adds one: the connected subnet
\* of every interface address, and the link-local route fe80::/64
LinkLocalPrefix == Network(IpPrefix("v6", Pow2(AddrBits) - 1, 1))
InterfaceRoutes(interfaces) ==
  {RouteEntry(a, "interface", "connected") : a \in UNION {i.address : i \in interfaces}}
    \cup {RouteEntry(LinkLocalPrefix, "linklocal", "connected")}

\* what a call of the handler gives its caller (threw: a call before this
\* one threw; had: only syncFib sets it)
NoCall == [name |-> "none", id |-> 0, client |-> "none", routes |-> <<>>]
Replied(x, call, raised, info) ==
  [x EXCEPT !.call = call, !.raised = raised, !.info = info,
            !.threw = x.threw \/ x.raised, !.had = {}]

\* createMockSw(...) and ThriftHandler handler(sw.get())
CreateSwitch(interfaces) ==
  /\ ~sw.made
  /\ sw' = [made |-> TRUE, interfaces |-> interfaces,
            routes |-> InterfaceRoutes(interfaces),
            call |-> NoCall, raised |-> FALSE, info |-> NoInterface,
            threw |-> FALSE, had |-> {}]
  /\ UNCHANGED <<apiVars, asic, managerTable>>

\* a handler that answers with the first interface whatever the id
FindInterfaceFirst(interfaces, id) ==
  {i \in interfaces : \A j \in interfaces : i.interfaceId <= j.interfaceId}

\* the interface of the switch state with this id, if there is one
FindInterface(interfaces, id) == {i \in interfaces : i.interfaceId = id}

\* ThriftHandler::getInterfaceDetail(info, interfaceId): the detail of the
\* interface, or an FbossError when there is none with this id
GetInterfaceDetail(id) ==
  /\ sw.made
  /\ LET found == FindInterface(sw.interfaces, id)
         call == [NoCall EXCEPT !.name = "getInterfaceDetail", !.id = id]
     IN sw' = IF found = {} THEN Replied(sw, call, TRUE, NoInterface)
              ELSE Replied(sw, call, FALSE, CHOOSE i \in found : TRUE)
  /\ UNCHANGED <<apiVars, asic, managerTable>>

\* the routes of a table that are this client's
RoutesOf(routes, client) == {e \in routes : e.client = client}

\* RouteUpdater::addRoute: the client's route to the network of the prefix,
\* in place of the one it had there
AddRoute(routes, client, r) ==
  {e \in routes : ~(e.client = client /\ e.prefix = Network(r.dest))}
    \cup {ClientRoute(client, r)}

\* ThriftHandler::addUnicastRoute(client, route)
AddUnicastRoute(client, r) ==
  /\ sw.made
  /\ Cardinality(RoutesOf(sw.routes, client)) < MaxRoutes
  /\ sw' = [Replied(sw, [NoCall EXCEPT !.name = "addUnicastRoute", !.client = client,
                                       !.routes = <<r>>], FALSE, NoInterface)
              EXCEPT !.routes = AddRoute(sw.routes, client, r)]
  /\ UNCHANGED <<apiVars, asic, managerTable>>

\* the routes of a vector added one after the other
RECURSIVE AddRoutes(_, _, _)
AddRoutes(routes, client, rs) ==
  IF rs = <<>> THEN routes
  ELSE AddRoutes(AddRoute(routes, client, Head(rs)), client, Tail(rs))

\* a syncFib that adds the new routes and keeps the old ones
SyncedRoutesKeepOld(routes, client, rs) == AddRoutes(routes, client, rs)

\* syncFib: every route of the client is removed, then the new ones are
\* added
SyncedRoutes(routes, client, rs) ==
  AddRoutes(routes \ RoutesOf(routes, client), client, rs)

\* ThriftHandler::syncFib(client, routes); had remembers the networks the
\* client had routes to before
SyncFib(client, rs) ==
  /\ sw.made
  /\ sw' = [Replied(sw, [NoCall EXCEPT !.name = "syncFib", !.client = client,
                                       !.routes = rs], FALSE, NoInterface)
              EXCEPT !.routes = SyncedRoutes(sw.routes, client, rs),
                     !.had = {e.prefix : e \in RoutesOf(sw.routes, client)}]
  /\ UNCHANGED <<apiVars, asic, managerTable>>

\* the ids getInterfaceDetail is asked about: the two of testStateA(), and
\* one that no configuration has
InterfaceIds == {1, 55, 123}

NextThrift ==
  \/ \E c \in Configs : CreateSwitch(c)
  \/ \E id \in InterfaceIds : GetInterfaceDetail(id)
  \/ \E c \in ClientIds, r \in RouteInputs : AddUnicastRoute(c, r)
  \/ \E c \in ClientIds, rs \in SyncInputs : SyncFib(c, rs)

SpecThrift == Init /\ [][NextThrift]_vars

\* ================================================================ claims
Done(t) == th[t].pc = "done"
Ok(t) == Done(t) /\ th[t].outcome = "ok"
Failed(t) == Done(t) /\ th[t].outcome = "error"
NonGetKinds == {"createId", "createEntry", "remove", "setAttr", "getStats", "getStatsDefault"}

\* C1: at most one vendor primitive call is in flight at any instant, and it
\* is the lock holder's; calls of two threads never overlap
C1_OneVendorCallInFlight ==
  /\ \A t \in inFlight, u \in inFlight : t = u
  /\ inFlight \subseteq lock

\* a create on one category is inside the vendor while a create on another
\* category, from another thread, waits for the lock
C1_Witness ==
  \E t \in Threads, u \in Threads :
    /\ t # u
    /\ th[t].kind = "createId" /\ th[t].cat = "port" /\ t \in inFlight
    /\ th[u].kind = "createEntry" /\ th[u].cat = "route" /\ th[u].pc = "lock"

\* the base case of getAttribute is between the return of an overflowing
\* first attempt and its own return
InRetryWindow(t) ==
  /\ th[t].kind \in GetKinds
  /\ th[t].first = SAI_STATUS_BUFFER_OVERFLOW
  /\ th[t].pc \in {"ret", "call", "inflight"}

\* C2: after a first attempt that reports buffer-overflow the engine grows
\* the buffer once and reissues the get once, and from the first attempt to
\* the end of the retry it holds the lock and no other thread is inside the
\* vendor
C2_RetryUnderLock ==
  \A t \in Threads :
    (th[t].kind \in GetKinds /\ th[t].first = SAI_STATUS_BUFFER_OVERFLOW) =>
      /\ InRetryWindow(t) => (lock = {t} /\ inFlight \subseteq {t})
      /\ th[t].grows = (IF th[t].pc = "ret" /\ th[t].calls = 1 THEN 0 ELSE 1)
      /\ th[t].calls = (IF th[t].pc \in {"call", "inflight"} \/ (th[t].pc = "ret" /\ th[t].grows = 0)
                          THEN 1 ELSE 2)
      /\ Done(t) => (th[t].calls = 2 /\ th[t].grows = 1)

\* the retry of a single-attribute read is inside the vendor while another
\* thread waits for the lock
C2_Witness ==
  \E t \in Threads, u \in Threads :
    /\ t # u
    /\ th[t].kind = "getAttr" /\ th[t].first = SAI_STATUS_BUFFER_OVERFLOW
    /\ th[t].pc = "inflight" /\ th[t].calls = 1 /\ th[t].grows = 1
    /\ th[u].pc = "lock"

\* C3: one base-case getAttribute makes at most two vendor get calls; a
\* first status that is neither success nor overflow raises with no growth
\* and no retry; any non-success second status, a second overflow included,
\* raises with no further retry
C3_AtMostTwoCalls ==
  \A t \in Threads :
    th[t].kind \in GetKinds =>
      /\ th[t].calls <= 2 /\ th[t].grows <= 1
      /\ (th[t].pc \in {"ret", "done"} /\ th[t].calls = 2) => th[t].first = SAI_STATUS_BUFFER_OVERFLOW
      /\ (Done(t) /\ th[t].first = SAI_STATUS_FAILURE) =>
           (th[t].outcome = "error" /\ th[t].calls = 1 /\ th[t].grows = 0)
      /\ (Done(t) /\ th[t].first = SAI_STATUS_SUCCESS) => th[t].calls = 1
      /\ (Done(t) /\ th[t].calls = 2 /\ th[t].status # SAI_STATUS_SUCCESS) =>
           (th[t].outcome = "error" /\ th[t].grows = 1)

\* a single-attribute read has failed on the second overflow
C3_Witness ==
  \E t \in Threads :
    /\ th[t].kind = "getAttr" /\ Failed(t)
    /\ th[t].calls = 2 /\ th[t].status = SAI_STATUS_BUFFER_OVERFLOW

\* C4: a successful getAttribute on a list attribute returns the hardware's
\* elements, as many as the hardware reported, whatever the buffer's
\* capacity was; after an overflow the buffer is regrown to the reported
\* count before the second call, and if that call succeeds so does the read
C4_ListLengthIsHardwareCount ==
  \A t \in Threads :
    (th[t].kind = "getAttr" /\ IsList(th[t].attrs[1].id)) =>
      /\ Ok(t) => /\ th[t].result = <<th[t].seen>>
                  /\ Len(th[t].result[1]) = th[t].attrs[1].count
                  /\ th[t].attrs[1].cap >= th[t].attrs[1].count
      /\ (th[t].grows = 1 /\ th[t].pc \in {"call", "inflight"}) =>
           (th[t].attrs[1].cap = th[t].attrs[1].count /\ th[t].attrs[1].cap > 0)
      /\ (Done(t) /\ th[t].status = SAI_STATUS_SUCCESS) => Ok(t)

\* a list longer than the buffer was read in two calls, and all MaxLen
\* elements came back
C4_Witness ==
  \E t \in Threads :
    /\ th[t].kind = "getAttr" /\ IsList(th[t].attrs[1].id) /\ Ok(t)
    /\ th[t].first = SAI_STATUS_BUFFER_OVERFLOW /\ th[t].calls = 2
    /\ th[t].result = <<HwList(MaxLen)>>

\* the invocation has made a vendor call and has not made its last
Started(t) ==
  /\ th[t].pc \in {"lock", "call", "inflight", "ret"}
  /\ th[t].pc = "inflight" \/ th[t].calls > 0 \/ th[t].idx > 1

\* a getAttribute over an aggregate is between two element reads
BetweenElements(t) ==
  th[t].kind = "getTuple" /\ th[t].pc = "lock" /\ th[t].idx > 1

\* C5 as claimed: every invocation, aggregates included, holds the lock
\* from its first vendor call to its last, and no other thread is inside
\* the vendor meanwhile
C5_Original ==
  \A t \in Threads : Started(t) => (lock = {t} /\ inFlight \subseteq {t})

\* C5 amended: create, remove, setAttribute, getStats and getAttribute on
\* one attribute or on an optional are single critical sections; a
\* getAttribute over an aggregate is one critical section per element,
\* each held over that element's retry, with the lock free in between
C5_CriticalSectionPerElement ==
  \A t \in Threads :
    /\ (Started(t) /\ ~BetweenElements(t)) => (lock = {t} /\ inFlight \subseteq {t})
    /\ BetweenElements(t) => t \notin lock

\* another thread is inside the vendor between two element reads of an
\* aggregate getAttribute
C5_Witness ==
  \E t \in Threads, u \in Threads :
    /\ t # u
    /\ BetweenElements(t)
    /\ u \in inFlight

\* what the base case of getAttribute returns for the attribute object x
\* when the hardware holds hw and answers both attempts
SingleGetAttribute(x, hw) ==
  LET a1 == AdapterGetAttribute(x, hw, TRUE)
      a2 == AdapterGetAttribute(Realloc(a1.attr), hw, TRUE)
  IN IF a1.status = SAI_STATUS_BUFFER_OVERFLOW THEN Value(a2.attr) ELSE Value(a1.attr)

\* C6: getAttribute over an aggregate of N attributes returns N values in
\* the aggregate's order, the i-th being what a single-attribute
\* getAttribute on the i-th attribute returns from the hardware state of
\* the i-th read, whatever the capacity of its buffer
C6_TupleIsElementwise ==
  \A t \in Threads :
    (th[t].kind = "getTuple" /\ Ok(t)) =>
      /\ Len(th[t].result) = Len(th[t].attrs)
      /\ \A i \in 1..Len(th[t].attrs) :
           \A x \in GetAttrInputs(MaxLen) :
             x.id = th[t].attrs[i].id =>
               th[t].result[i] = SingleGetAttribute(x, th[t].expect[i])

\* an aggregate of MaxTuple attributes of both kinds was read, its list
\* element through an overflow and a retry
C6_Witness ==
  \E t \in Threads :
    /\ th[t].kind = "getTuple" /\ Ok(t)
    /\ Len(th[t].result) = MaxTuple
    /\ ~IsList(th[t].attrs[1].id) /\ IsList(th[t].attrs[MaxTuple].id)
    /\ th[t].grows = 1 /\ th[t].result[MaxTuple] = HwList(MaxLen)

\* C7: getAttribute over an optional reads the optional's attribute, or a
\* default-constructed one when it is absent, as the base case does, and a
\* successful read is always handed back present
C7_OptionalAlwaysPresent ==
  \A t \in Threads :
    th[t].kind = "getOpt" =>
      /\ (th[t].pc = "lock" /\ ~th[t].opt.has) => th[t].local = DefaultAttr(th[t].opt.v.id)
      /\ (th[t].pc = "lock" /\ th[t].opt.has) => th[t].local = th[t].opt.v
      /\ th[t].local.id = th[t].opt.v.id
      /\ Ok(t) => /\ Len(th[t].result) = 1
                  /\ th[t].result[1].has
                  /\ \A x \in GetAttrInputs(MaxLen) :
                       x.id = th[t].opt.v.id =>
                         th[t].result[1].v = SingleGetAttribute(x, th[t].expect[1])

\* an absent optional list attribute was read through an overflow and a
\* retry and came back present with the hardware's MaxLen elements
C7_Witness ==
  \E t \in Threads :
    /\ th[t].kind = "getOpt" /\ Ok(t)
    /\ ~th[t].opt.has /\ IsList(th[t].opt.v.id)
    /\ th[t].grows = 1
    /\ th[t].result = <<Some(HwList(MaxLen))>>

StatsKinds == {"getStats", "getStatsDefault"}

\* C8: a successful getStats returns one counter per counter id of the
\* call, the explicit list's (of any length, 0 included) or the
\* descriptor's own
C8_StatsLength ==
  \A t \in Threads :
    (th[t].kind \in StatsKinds /\ Ok(t)) =>
      /\ Len(th[t].result) = 1
      /\ Len(th[t].result[1]) = Len(th[t].ids)
      /\ \A i \in 1..Len(th[t].ids) : th[t].result[1][i] = HwCounter(th[t].ids[i])

\* an explicit list of MaxCounters ids, longer or shorter than a
\* descriptor's own, got MaxCounters counters
C8_Witness ==
  \E t \in Threads :
    /\ th[t].kind = "getStats" /\ Ok(t)
    /\ Len(th[t].ids) = MaxCounters
    /\ th[t].ids \notin TraitsCounterIds
    /\ Len(th[t].result[1]) = MaxCounters

\* C9: create, remove, setAttribute and getStats make one vendor call each,
\* raise exactly when its status is not success, never retry, and the
\* generated-handle create returns the vendor's key exactly on success
C9_OneCallNoRetry ==
  \A t \in Threads :
    th[t].kind \in NonGetKinds =>
      /\ th[t].calls <= 1 /\ th[t].grows = 0
      /\ th[t].pc \in {"ret", "done"} => th[t].calls = 1
      /\ Done(t) => (th[t].outcome = "error" <=> th[t].status # SAI_STATUS_SUCCESS)
      /\ (Done(t) /\ th[t].kind = "createId") =>
           IF th[t].status = SAI_STATUS_SUCCESS
             THEN th[t].result = <<th[t].key>> /\ th[t].key \in ObjectIds
             ELSE th[t].result = <<>>

\* a generated-handle create whose one vendor call reported buffer-overflow
\* has failed without a retry
C9_Witness ==
  \E t \in Threads :
    /\ th[t].kind = "createId" /\ Failed(t)
    /\ th[t].status = SAI_STATUS_BUFFER_OVERFLOW /\ th[t].calls = 1

\* how many values an invocation that succeeds hands back
ResultSize(r) ==
  CASE r.kind = "getTuple" -> Len(r.attrs)
    [] r.kind \in {"getAttr", "getOpt", "createId", "getStats", "getStatsDefault"} -> 1
    [] OTHER -> 0

C11_RemoveAfterCreate ==
  \A t \in Threads :
    (Done(t) /\ th[t].kind = "remove" /\ th[t].after # "none" /\ ~th[t].gone)
      => (th[t].outcome = "ok" /\ th[t].key \in Keys)

\* both variants at once: one thread has removed the handle it created, the
\* other the entry it created, neither disturbed by the other
C11_Witness ==
  \E t, u \in Threads :
    /\ Ok(t) /\ th[t].kind = "remove" /\ th[t].after = "createId" /\ ~th[t].gone
    /\ th[t].key \in ObjectIds
    /\ Ok(u) /\ th[u].kind = "remove" /\ th[u].after = "createEntry" /\ ~th[u].gone
    /\ th[u].key \in EntryKeys

\* a query of the profile has just returned or thrown
AsicAsked(name) == asic.made /\ asic.query.name = name
AskedBefore(key) == asic.answers[key] # {}

\* C12: the default queue count of StreamType::ALL is never a count: the
\* query always throws, whatever was asked of the profile before.
C12_AllStreamTypesRaises ==
  asic.made =>
    /\ (asic.query = Query("getDefaultNumPortQueues", "ALL")
          => asic.outcome.raised /\ asic.outcome.value = <<>>)
    /\ \A o \in asic.answers[Query("getDefaultNumPortQueues", "ALL")] :
         o.raised /\ o.value = <<>>

\* ALL was asked after queries that returned counts and stream-type sets
C12_Witness ==
  /\ AsicAsked("getDefaultNumPortQueues") /\ asic.query.arg = "ALL"
  /\ asic.outcome.raised
  /\ AskedBefore(Query("getDefaultNumPortQueues", "UNICAST"))
  /\ AskedBefore(Query("getDefaultNumPortQueues", "MULTICAST"))
  /\ AskedBefore(Query("getQueueStreamTypes", "cpu"))

\* C13: a request for the default queue count of a stream type the port kind
\* does not support (UNICAST for a CPU port, MULTICAST for a front-panel
\* port) throws an error that names the stream type.
C13_UnsupportedCombinationRaises ==
  (AsicAsked("getDefaultNumPortQueues")
     /\ asic.query.arg \in {"UNICAST", "MULTICAST"}
     /\ asic.query.arg \notin QueueStreamTypes(asic, asic.forPort))
    => (asic.outcome.raised /\ asic.outcome.names = <<asic.query.arg>>)

\* C14: on one profile the same query with the same argument has one outcome
\* (a thrown error included), and the profile is what the constructor made.
C14_QueriesArePure ==
  asic.made =>
    /\ \A k \in QueryKeys : Cardinality(asic.answers[k]) <= 1
    /\ asic.profile = asic.built

\* every query has been asked, the ones that throw too, and a count was
\* asked again after the ALL case threw
C14_Witness ==
  /\ asic.made
  /\ \A k \in QueryKeys : AskedBefore(k)
  /\ asic.query = Query("getDefaultNumPortQueues", "UNICAST")
  /\ ~asic.outcome.raised

\* the category an accessor is the accessor of
AccessorCategory(accessor) ==
  IF accessor \in {"bridgeManager", "bridgeManager const"} THEN "bridge" ELSE "port"

\* C15: a constructed SaiManagerTable owns one manager per category, the
\* bridge manager made first and the port manager second, each made with the
\* table's SaiApiTable and with the table itself as back-reference; and every
\* accessor, mutable or const, has only ever returned the manager of its
\* category.
C15_OneManagerPerCategory ==
  managerTable.made =>
    LET mt == managerTable
    IN /\ Len(mt.constructed) = Cardinality(ManagerCategories)
       /\ mt.constructed[1].category = "bridge"
       /\ mt.constructed[Len(mt.constructed)].category = "port"
       /\ \A i \in 1..Len(mt.constructed) :
            /\ mt.constructed[i].apiTable = mt.given
            /\ mt.constructed[i].managerTable = mt.this
       /\ \A h \in mt.handed :
            /\ h.manager.category = AccessorCategory(h.accessor)
            /\ \E i \in 1..Len(mt.constructed) : mt.constructed[i] = h.manager

\* the second table, after the first was destroyed: all four accessors have
\* been called, the bridge accessor last
C15_Witness ==
  /\ managerTable.made /\ managerTable.tables = MaxManagerTables
  /\ Cardinality(managerTable.handed) = 4
  /\ managerTable.accessor = "bridgeManager const"
  /\ managerTable.returned = managerTable.constructed[1]

\* the networks a route table has routes to
Prefixes(routes) == {e.prefix : e \in routes}
\* the networks of a vector of routes, each prefix masked to its length
NetworksOf(rs) ==
  {[fam |-> rs[i].dest.fam,
    ip |-> rs[i].dest.ip - (rs[i].dest.ip % Pow2(AddrBits - rs[i].dest.len)),
    len |-> rs[i].dest.len] : i \in 1..Len(rs)}

C18_SuccessIsLogged ==
  \A t \in Threads :
    (Done(t) /\ th[t].kind \in {"createId", "createEntry", "remove"})
      => (th[t].logged <=> th[t].outcome = "ok")

\* a thread is inside an engine call
InCall(t) == th[t].pc \in {"lock", "call", "inflight", "ret"}

\* C19: every engine call of every thread completes, with its result or
\* with the error thrown; a thread that is not inside a call does not hold
\* the lock (it was released on the way out, by a throw as by a return), and
\* a thread about to lock the mutex does not hold it already.
C19_DeadlockFree ==
  /\ \A t \in Threads : InCall(t) ~> Done(t)
  /\ [](\A t \in Threads :
          /\ (th[t].pc \in {"idle", "done", "lock"} => t \notin lock)
          /\ (th[t].pc \in {"call", "inflight", "ret"} => t \in lock))

\* after a call of one thread threw, the other thread got the lock for the
\* second element of its aggregate
C19_Witness ==
  \E t, u \in Threads :
    /\ Failed(t) /\ t \notin lock
    /\ th[u].kind = "getTuple" /\ th[u].idx = 2 /\ th[u].pc = "inflight"
    /\ lock = {u}

\* the attribute a getAttribute over the optional o starts from
CallerAttr(o) == ValueOr(o, DefaultAttr(o.v.id))

\* C20: getAttribute over an optional never changes the caller's optional
\* (absent stays absent, a present list buffer is not grown): every call
\* through it, a repeated one too, starts from a copy of it, so its first
\* attempt succeeds only when the caller's own capacity holds the list, and
\* otherwise overflows and is followed by one growth and one retry.
C20_OptionalLeftUnchanged ==
  /\ [][\A t \in Threads :
          (th[t].kind = "getOpt" /\ th'[t].kind = "getOpt") => th'[t].opt = th[t].opt]_vars
  /\ [](\A t \in Threads :
          th[t].kind = "getOpt" =>
            /\ th[t].opt \in OptionalInputs(MaxLen)
            /\ (th[t].pc \in {"lock", "call"} /\ th[t].calls = 0
                  => th[t].local = CallerAttr(th[t].opt))
            /\ (th[t].first = SAI_STATUS_SUCCESS /\ IsList(th[t].opt.v.id) /\ th[t].calls = 1
                  => Len(th[t].seen) <= CallerAttr(th[t].opt).cap)
            /\ (Ok(t) /\ th[t].first = SAI_STATUS_BUFFER_OVERFLOW
                  => th[t].grows = 1 /\ th[t].calls = 2))

\* the last of the repeated calls through a present list attribute of
\* capacity 1 overflowed again, grew once and read the MaxLen elements
C20_Witness ==
  \E t \in Threads :
    /\ Ok(t) /\ th[t].kind = "getOpt" /\ th[t].round = MaxRepeat
    /\ th[t].opt.has /\ IsList(th[t].opt.v.id) /\ th[t].opt.v.cap = 1
    /\ th[t].first = SAI_STATUS_BUFFER_OVERFLOW /\ th[t].grows = 1 /\ th[t].calls = 2
    /\ th[t].result = <<Some(HwList(MaxLen))>>

====
